---- MODULE Spec2Model ----
(***************************************************************************)
(* Model of the MongoDB logging decorator                                  *)
(*   src/db_handlers/mongodb/decorator.py        MongoDBLogDecorator       *)
(*   src/db_handlers/mongodb/mongodb_handler.py  MongoDBHandler            *)
(*                                                                         *)
(* Threads construct decorators and invoke wrapped functions.  The logger  *)
(* named "MongoDBLogger" is process-wide: its handler list is shared by    *)
(* every decorator instance.  Time is counted in microseconds.             *)
(***************************************************************************)
EXTENDS Integers, Sequences, FiniteSets, TLC

(* ------------------------------------------------------------------ *)
(* Bounds and input domains                                            *)
(* ------------------------------------------------------------------ *)

\* total number of operations (constructions + wrapped calls) started
MaxOps == 3

Threads == {"t1", "t2"}

\* collection names a decorator may be constructed with
Collections == {"function_traces", "audit_traces"}

\* microseconds the wrapped function may take (multiples of 4: never a tie
\* when rounded to hundredths of a millisecond)
ElapsedChoices == {0, 8}

\* Python's None object (distinct from the string "None")
NoneV == "<None>"

\* the calls made: which wrapped function with which arguments
CallSites ==
  { [func |-> "calculate_payment", args |-> "tuple(1000, 0.1)"],
    [func |-> "refund", args |-> "tuple(1000, 0.1)"],
    [func |-> "refund", args |-> "tuple(Unprintable())"] }

\* objects a wrapped function may return
ResultObjects == {"float(1100.0)", NoneV, "Unprintable()"}

\* failures a wrapped function may raise: type and message
\* ValueError derives from Exception, KeyboardInterrupt only from BaseException
Failures ==
  { [type |-> "ValueError", msg |-> "price must not be negative"],
    [type |-> "KeyboardInterrupt", msg |-> "interrupted"] }

ExceptionTypes == {"ValueError", "ReprError"}

\* objects whose __str__/__repr__ raises
Unprintable == {"Unprintable()", "tuple(Unprintable())"}

\* the failure raised by the __repr__ of an unprintable object
ReprFailure == [type |-> "ReprError", msg |-> "repr failed"]

(* ------------------------------------------------------------------ *)
(* Pure helpers                                                        *)
(* ------------------------------------------------------------------ *)

\* str(obj) raises
StrRaises(o) == o \in Unprintable

\* str(obj) for printable objects
Str(o) ==
  CASE o = "tuple(1000, 0.1)" -> "(1000, 0.1)"
    [] o = "float(1100.0)"    -> "1100.0"
    [] o = NoneV              -> "None"
    [] o = "dict()"           -> "{}"
    [] OTHER                  -> "?"

\* round((us / 1000000) * 1000, 2), in hundredths of a millisecond
Round2(us) == (us + 5) \div 10

\* logging level numbers
DEBUG == 10
INFO == 20
ERROR == 40

LevelNo(name) == IF name = "INFO" THEN INFO ELSE ERROR

\* Logger.isEnabledFor after setLevel(DEBUG)
IsEnabledFor(name) == LevelNo(name) >= DEBUG

\* dict.update
Update(d, e) ==
  [k \in (DOMAIN d) \cup (DOMAIN e) |-> IF k \in DOMAIN e THEN e[k] ELSE d[k]]

\* an outcome travelling up the stack: nothing yet, a return value or a raise
NoOutcome == [kind |-> "none", type |-> NoneV, value |-> NoneV]
Returned(v) == [kind |-> "return", type |-> NoneV, value |-> v]
Raised(f) == [kind |-> "raise", type |-> f.type, value |-> f.msg]

NoPayload == [absent |-> TRUE]

(* ------------------------------------------------------------------ *)
(* State                                                               *)
(* ------------------------------------------------------------------ *)

VARIABLES
  handlers,     \* logging.getLogger("MongoDBLogger").handlers: the collection each handler is bound to
  decorators,   \* constructed MongoDBLogDecorator instances, by self.collection
  store,        \* collection -> number of documents it holds
  clock,        \* time(), microseconds; the system clock is not set back
  ops,          \* operations started
  pc,           \* per thread: position in the operation it runs
  op,           \* per thread: "construct" or "call"
  coll,         \* per thread: self.collection of the decorator in use
  func,         \* per thread: func.__name__
  args,         \* per thread: args
  start_time,   \* per thread: start_time
  result,       \* per thread: result
  error_msg,    \* per thread: error_msg
  status,       \* per thread: status
  funcOutcome,  \* per thread: what func(*args, **kwargs) did
  pending,      \* per thread: the return value or exception in flight out of the wrapper
  log_payload,  \* per thread: the log_payload dict object
  handed,       \* per thread: the payload as it was when passed to logger.info/error
  level,        \* per thread: level name of the LogRecord
  hidx,         \* per thread: position in the logger's handler list
  inserts,      \* per thread: insert_one calls made for the current wrapped call
  stored,       \* per thread: documents the current call got stored, with their collection
  errHook       \* per thread: handleError calls made for the current wrapped call

vars ==
  << handlers, decorators, store, clock, ops, pc, op, coll, func, args,
     start_time, result, error_msg, status, funcOutcome, pending, log_payload,
     handed, level, hidx, inserts, stored, errHook >>

callVars ==
  << func, args, start_time, result, error_msg, status, funcOutcome, pending,
     log_payload, handed, level, hidx, inserts, stored, errHook >>

Init ==
  /\ handlers = << >>
  /\ decorators = {}
  /\ store = [c \in Collections |-> 0]
  /\ clock = 0
  /\ ops = 0
  /\ pc = [t \in Threads |-> "idle"]
  /\ op = [t \in Threads |-> "none"]
  /\ coll = [t \in Threads |-> NoneV]
  /\ func = [t \in Threads |-> NoneV]
  /\ args = [t \in Threads |-> NoneV]
  /\ start_time = [t \in Threads |-> 0]
  /\ result = [t \in Threads |-> NoneV]
  /\ error_msg = [t \in Threads |-> NoneV]
  /\ status = [t \in Threads |-> "success"]
  /\ funcOutcome = [t \in Threads |-> NoOutcome]
  /\ pending = [t \in Threads |-> NoOutcome]
  /\ log_payload = [t \in Threads |-> NoPayload]
  /\ handed = [t \in Threads |-> NoPayload]
  /\ level = [t \in Threads |-> NoneV]
  /\ hidx = [t \in Threads |-> 1]
  /\ inserts = [t \in Threads |-> 0]
  /\ stored = [t \in Threads |-> << >>]
  /\ errHook = [t \in Threads |-> 0]

Free(t) == pc[t] = "idle"

\* `except Exception` catches this failure type
IsException(type) == type \in ExceptionTypes

(* ------------------------------------------------------------------ *)
(* MongoDBLogDecorator.__init__                                        *)
(* ------------------------------------------------------------------ *)

\* the guard left out: every construction registers a handler
AlwaysNoHandlers == TRUE

\* `not self.logger.handlers`
NoHandlers == Len(handlers) = 0

\* lines 24-33: bind the collection, fetch the shared logger, set its level and
\* test whether it has handlers; without handlers the constructor goes on to
\* addHandler, otherwise construction is complete
ConstructCheck(t, c) ==
  /\ Free(t)
  /\ ops < MaxOps
  /\ ops' = ops + 1
  /\ IF NoHandlers
       THEN /\ pc' = [pc EXCEPT ![t] = "add_handler"]
            /\ op' = [op EXCEPT ![t] = "construct"]
            /\ coll' = [coll EXCEPT ![t] = c]
            /\ UNCHANGED decorators
       ELSE /\ decorators' = decorators \cup {c}
            /\ UNCHANGED << pc, op, coll >>
  /\ UNCHANGED << handlers, store, clock, callVars >>

\* lines 34-35: MongoDBHandler(collection=self.collection); addHandler
AddHandler(t) ==
  /\ pc[t] = "add_handler"
  /\ handlers' = Append(handlers, coll[t])
  /\ decorators' = decorators \cup {coll[t]}
  /\ pc' = [pc EXCEPT ![t] = "idle"]
  /\ op' = [op EXCEPT ![t] = "none"]
  /\ coll' = [coll EXCEPT ![t] = NoneV]
  /\ UNCHANGED << store, clock, ops, callVars >>

(* ------------------------------------------------------------------ *)
(* MongoDBLogDecorator.__call__.wrapper                                *)
(* ------------------------------------------------------------------ *)

\* lines 41-44: entry of the wrapper made by decorator instance d
CallStart(t, d, f, a) ==
  /\ Free(t)
  /\ ops < MaxOps
  /\ d \in decorators
  /\ ops' = ops + 1
  /\ op' = [op EXCEPT ![t] = "call"]
  /\ coll' = [coll EXCEPT ![t] = d]
  /\ func' = [func EXCEPT ![t] = f]
  /\ args' = [args EXCEPT ![t] = a]
  /\ start_time' = [start_time EXCEPT ![t] = clock]
  /\ result' = [result EXCEPT ![t] = NoneV]
  /\ error_msg' = [error_msg EXCEPT ![t] = NoneV]
  /\ status' = [status EXCEPT ![t] = "success"]
  /\ funcOutcome' = [funcOutcome EXCEPT ![t] = NoOutcome]
  /\ pending' = [pending EXCEPT ![t] = NoOutcome]
  /\ log_payload' = [log_payload EXCEPT ![t] = NoPayload]
  /\ handed' = [handed EXCEPT ![t] = NoPayload]
  /\ level' = [level EXCEPT ![t] = NoneV]
  /\ hidx' = [hidx EXCEPT ![t] = 1]
  /\ inserts' = [inserts EXCEPT ![t] = 0]
  /\ stored' = [stored EXCEPT ![t] = << >>]
  /\ errHook' = [errHook EXCEPT ![t] = 0]
  /\ pc' = [pc EXCEPT ![t] = "in_func"]
  /\ UNCHANGED << handlers, decorators, store, clock >>

\* lines 47-48: func returns v after e microseconds
FuncReturns(t, v, e) ==
  /\ pc[t] = "in_func"
  /\ clock' = clock + e
  /\ result' = [result EXCEPT ![t] = v]
  /\ funcOutcome' = [funcOutcome EXCEPT ![t] = Returned(v)]
  /\ pending' = [pending EXCEPT ![t] = Returned(v)]
  /\ pc' = [pc EXCEPT ![t] = "finally"]
  /\ UNCHANGED << handlers, decorators, store, ops, op, coll, func, args,
                  start_time, error_msg, status, log_payload, handed, level,
                  hidx, inserts, stored, errHook >>

\* lines 47, 50-53: func raises x after e microseconds; the except clause runs
\* only for failures deriving from Exception, the raise goes on either way
FuncRaises(t, x, e) ==
  /\ pc[t] = "in_func"
  /\ clock' = clock + e
  /\ funcOutcome' = [funcOutcome EXCEPT ![t] = Raised(x)]
  /\ pending' = [pending EXCEPT ![t] = Raised(x)]
  /\ IF IsException(x.type)
       THEN /\ status' = [status EXCEPT ![t] = "error"]
            /\ error_msg' = [error_msg EXCEPT ![t] = x.msg]
       ELSE UNCHANGED << status, error_msg >>
  /\ pc' = [pc EXCEPT ![t] = "finally"]
  /\ UNCHANGED << handlers, decorators, store, ops, op, coll, func, args,
                  start_time, result, log_payload, handed, level,
                  hidx, inserts, stored, errHook >>

\* lines 57-65: the dict built in the finally block
Payload(t) ==
  [ function    |-> func[t],
    args        |-> Str(args[t]),
    kwargs      |-> Str("dict()"),
    result      |-> Str(result[t]),
    exception   |-> error_msg[t],
    status      |-> status[t],
    duration_ms |-> Round2(clock - start_time[t]) ]

\* lines 67-71: severity chosen by `match status`
LevelOf(s) == IF s = "success" THEN "INFO" ELSE "ERROR"

\* a str() call of lines 59-61 raises
PayloadRaises(t) == StrRaises(args[t]) \/ StrRaises(result[t])

\* lines 54-71 up to the logger call: build the payload and hand it to
\* logger.info / logger.error; a failure raised while the dict is built leaves
\* the finally block and replaces the outcome in flight
Finally(t) ==
  /\ pc[t] = "finally"
  /\ IF PayloadRaises(t)
       THEN /\ pending' = [pending EXCEPT ![t] = Raised(ReprFailure)]
            /\ pc' = [pc EXCEPT ![t] = "exit"]
            /\ UNCHANGED << log_payload, handed, level, hidx >>
       ELSE /\ log_payload' = [log_payload EXCEPT ![t] = Payload(t)]
            /\ handed' = [handed EXCEPT ![t] = Payload(t)]
            /\ level' = [level EXCEPT ![t] = LevelOf(status[t])]
            /\ hidx' = [hidx EXCEPT ![t] = 1]
            /\ pc' = [pc EXCEPT ![t] =
                        IF IsEnabledFor(LevelOf(status[t])) THEN "dispatch" ELSE "exit"]
            /\ UNCHANGED pending
  /\ UNCHANGED << handlers, decorators, store, clock, ops, op, coll, func, args,
                  start_time, result, error_msg, status, funcOutcome,
                  inserts, stored, errHook >>

(* ------------------------------------------------------------------ *)
(* MongoDBHandler.emit                                                 *)
(* ------------------------------------------------------------------ *)

\* isinstance(record.msg, dict)
IsDict(msg) == "function" \in DOMAIN msg

\* lines 27-30: a dict message is used as it is, the same object
LogEntry(msg) == IF IsDict(msg) THEN msg ELSE [message |-> "str(msg)"]

\* lines 32-37: log_entry.update({...})
Enriched(msg, now, lvl) == Update(LogEntry(msg), [timestamp |-> now, level |-> lvl])

\* the failure raised by insert_one
InsertFailure == [type |-> "PyMongoError", msg |-> "storage unavailable"]

\* emit without its except clause: a failing insert_one leaves emit, the logger
\* call and the finally block, and replaces the outcome in flight
HandlerEmitUncaught(t, ok) ==
  /\ pc[t] = "dispatch"
  /\ hidx[t] <= Len(handlers)
  /\ LET c == handlers[hidx[t]]
         entry == Enriched(log_payload[t], clock, level[t])
     IN  /\ log_payload' = [log_payload EXCEPT ![t] = entry]
         /\ inserts' = [inserts EXCEPT ![t] = @ + 1]
         /\ IF ok
              THEN /\ store' = [store EXCEPT ![c] = @ + 1]
                   /\ stored' = [stored EXCEPT ![t] = Append(@, [coll |-> c, doc |-> entry])]
                   /\ hidx' = [hidx EXCEPT ![t] = @ + 1]
                   /\ UNCHANGED << errHook, pending, pc >>
              ELSE /\ errHook' = [errHook EXCEPT ![t] = @ + 1]
                   /\ pending' = [pending EXCEPT ![t] = Raised(InsertFailure)]
                   /\ pc' = [pc EXCEPT ![t] = "exit"]
                   /\ UNCHANGED << store, stored, hidx >>
  /\ UNCHANGED << handlers, decorators, clock, ops, op, coll, func, args,
                  start_time, result, error_msg, status, funcOutcome,
                  handed, level >>

\* lines 26-41, for the next handler of the logger: the entry is the message
\* dict itself, updated in place; insert_one either stores it or raises, and a
\* raise is caught and passed to handleError
HandlerEmit(t, ok) ==
  /\ pc[t] = "dispatch"
  /\ hidx[t] <= Len(handlers)
  /\ LET c == handlers[hidx[t]]
         entry == Enriched(log_payload[t], clock, level[t])
     IN  /\ log_payload' = [log_payload EXCEPT ![t] = entry]
         /\ inserts' = [inserts EXCEPT ![t] = @ + 1]
         /\ IF ok
              THEN /\ store' = [store EXCEPT ![c] = @ + 1]
                   /\ stored' = [stored EXCEPT ![t] = Append(@, [coll |-> c, doc |-> entry])]
                   /\ UNCHANGED errHook
              ELSE /\ errHook' = [errHook EXCEPT ![t] = @ + 1]
                   /\ UNCHANGED << store, stored >>
  /\ hidx' = [hidx EXCEPT ![t] = @ + 1]
  /\ UNCHANGED << handlers, decorators, clock, ops, pc, op, coll, func, args,
                  start_time, result, error_msg, status, funcOutcome, pending,
                  handed, level >>

\* the wrapper has nothing left to do but hand its outcome to the caller
AtExit(t) ==
  \/ pc[t] = "exit"
  \/ pc[t] = "dispatch" /\ hidx[t] > Len(handlers)

\* the wrapper's frame is left: pending[t] is what its caller receives, the
\* locals are gone
Return(t) ==
  /\ AtExit(t)
  /\ pc' = [pc EXCEPT ![t] = "idle"]
  /\ op' = [op EXCEPT ![t] = "none"]
  /\ coll' = [coll EXCEPT ![t] = NoneV]
  /\ func' = [func EXCEPT ![t] = NoneV]
  /\ args' = [args EXCEPT ![t] = NoneV]
  /\ start_time' = [start_time EXCEPT ![t] = 0]
  /\ result' = [result EXCEPT ![t] = NoneV]
  /\ error_msg' = [error_msg EXCEPT ![t] = NoneV]
  /\ status' = [status EXCEPT ![t] = "success"]
  /\ funcOutcome' = [funcOutcome EXCEPT ![t] = NoOutcome]
  /\ pending' = [pending EXCEPT ![t] = NoOutcome]
  /\ log_payload' = [log_payload EXCEPT ![t] = NoPayload]
  /\ handed' = [handed EXCEPT ![t] = NoPayload]
  /\ level' = [level EXCEPT ![t] = NoneV]
  /\ hidx' = [hidx EXCEPT ![t] = 1]
  /\ inserts' = [inserts EXCEPT ![t] = 0]
  /\ stored' = [stored EXCEPT ![t] = << >>]
  /\ errHook' = [errHook EXCEPT ![t] = 0]
  /\ UNCHANGED << handlers, decorators, store, clock, ops >>

(* ------------------------------------------------------------------ *)
(* Specifications                                                      *)
(* ------------------------------------------------------------------ *)

Step(t) ==
  \/ \E c \in Collections : ConstructCheck(t, c)
  \/ AddHandler(t)
  \/ \E d \in Collections, s \in CallSites : CallStart(t, d, s.func, s.args)
  \/ \E v \in ResultObjects, e \in ElapsedChoices : FuncReturns(t, v, e)
  \/ \E x \in Failures, e \in ElapsedChoices : FuncRaises(t, x, e)
  \/ Finally(t)
  \/ \E ok \in BOOLEAN : HandlerEmit(t, ok)
  \/ Return(t)

\* threads run concurrently
Next == \E t \in Threads : Step(t)

Spec == Init /\ [][Next]_vars

\* one thread does everything, one operation after the other
SeqNext == Step("t1")

SeqSpec == Init /\ [][SeqNext]_vars

(* ------------------------------------------------------------------ *)
(* Properties                                                          *)
(* ------------------------------------------------------------------ *)

\* thread t runs a wrapped call whose outcome is about to reach the caller
Exiting(t) == op[t] = "call" /\ AtExit(t)

\* the wrapper of thread t has called logger.info / logger.error
Logged(t) == "function" \in DOMAIN handed[t]

\* thread t is inside a wrapped call
InCall(t) == op[t] = "call"

\* C1: whenever the wrapped function returned normally, the payload given to
\* the logger has status "success", no exception, the string form of the
\* returned value as result and a duration >= 0, it is logged at INFO, and the
\* caller receives the function's value.
C1_SuccessRecord ==
  \A t \in Threads :
    (Exiting(t) /\ funcOutcome[t].kind = "return") =>
      /\ Logged(t)
      /\ handed[t].status = "success"
      /\ handed[t].exception = NoneV
      /\ ~StrRaises(funcOutcome[t].value)
      /\ handed[t].result = Str(funcOutcome[t].value)
      /\ handed[t].duration_ms >= 0
      /\ level[t] = "INFO"
      /\ pending[t] = funcOutcome[t]

\* C2: whenever the wrapped function raised, whatever the kind of failure, the
\* payload given to the logger has status "error", the failure's message as
\* exception and no result (the string form of None), it is logged at ERROR,
\* and the caller receives the same failure, type and message.  Stated for the
\* calls whose arguments can be stringified, so that a violation is one of the
\* failure handling itself.
C2_ErrorRecord ==
  \A t \in Threads :
    (Exiting(t) /\ funcOutcome[t].kind = "raise" /\ ~PayloadRaises(t)) =>
      /\ Logged(t)
      /\ handed[t].status = "error"
      /\ handed[t].exception = funcOutcome[t].value
      /\ handed[t].result = Str(NoneV)
      /\ level[t] = "ERROR"
      /\ pending[t] = funcOutcome[t]

\* C3: after one or more constructions, one after the other and all with the
\* same sink configuration, the logger holds exactly one handler and every
\* wrapped call makes exactly one insert_one for each registered handler.
C3_OneHandlerOneInsert ==
  Cardinality(decorators) = 1 =>
    /\ Len(handlers) = 1
    /\ \A t \in Threads : Exiting(t) => inserts[t] = Len(handlers)

\* C4: when insert_one fails during a wrapped call, the caller still receives
\* exactly what the wrapped function produced, its return value or its own
\* failure, and every failed insert went to handleError and nowhere else.
C4_SinkFailureIsolated ==
  \A t \in Threads :
    (Exiting(t) /\ inserts[t] > Len(stored[t])) =>
      /\ pending[t] = funcOutcome[t]
      /\ errHook[t] = inserts[t] - Len(stored[t])

\* C4 witness: a call whose function returned a value and whose insert failed
\* is about to hand its outcome to the caller.
C4_Witness ==
  \E t \in Threads :
    /\ Exiting(t)
    /\ funcOutcome[t].kind = "return"
    /\ inserts[t] = 1
    /\ Len(stored[t]) = 0
    /\ errHook[t] = 1

\* C5: when two wrapped calls run concurrently on the logger with its one
\* handler, each of them gets exactly one record persisted, carrying its own
\* function name, status and result: two records in all.  (Calls start only
\* once a handler is registered and handlers are never removed, so one handler
\* when both calls end means one handler all along.)
C5_TwoConcurrentCalls ==
  ((\A t \in Threads : Exiting(t)) /\ Len(handlers) = 1) =>
    \A t \in Threads :
      /\ inserts[t] = 1
      /\ Len(stored[t]) = 1
      /\ stored[t][1].doc.function = func[t]
      /\ stored[t][1].doc.status = status[t]
      /\ stored[t][1].doc.result = Str(result[t])

\* C6: when str() of the arguments or of the result fails inside the wrapper,
\* the call is not aborted: the caller receives what the wrapped function
\* produced and a record is still given to the logger.
C6_StringifyDegrades ==
  \A t \in Threads :
    (Exiting(t) /\ PayloadRaises(t)) =>
      /\ pending[t] = funcOutcome[t]
      /\ Logged(t)

\* C7: the payload is never changed after the wrapper has given it to the
\* logger: the dict has the keys and values it was handed over with.
C7_PayloadReadOnly ==
  \A t \in Threads :
    (InCall(t) /\ Logged(t)) => log_payload[t] = handed[t]

\* C8: every invocation of the wrapper gives exactly one record to the logger,
\* after the wrapped function has finished and before the outcome reaches the
\* caller; with one registered handler exactly one record is persisted.
C8_ExactlyOneRecord ==
  \A t \in Threads :
    /\ (InCall(t) /\ Logged(t)) => funcOutcome[t].kind # "none"
    /\ Exiting(t) =>
         /\ Logged(t)
         /\ Len(handlers) = 1 => Len(stored[t]) = 1

\* C9: however concurrent constructions interleave, the logger never holds
\* more than one handler and no wrapped call is written twice.
C9_SingleHandlerUnderRace ==
  /\ Len(handlers) <= 1
  /\ \A t \in Threads : InCall(t) => inserts[t] <= 1

\* C10: in a sequential series of constructions, whatever their collections,
\* the logger never holds more than one handler, that handler is bound to the
\* collection of the first construction and is never replaced or joined by
\* another, and documents are only ever inserted in that collection.
C10_FirstCollectionWins ==
  [][ /\ Len(handlers') <= 1
      /\ Len(handlers) = 1 => handlers' = handlers
      /\ (Len(handlers) = 0 /\ Len(handlers') = 1) =>
           (decorators = {} /\ decorators' = {handlers'[1]})
      /\ \A c \in Collections :
           store'[c] # store[c] => (Len(handlers) = 1 /\ c = handlers[1])
    ]_vars

\* C10 witness: a call made through a decorator constructed with another
\* collection than the registered handler's has had its record stored.
C10_Witness ==
  \E t \in Threads :
    /\ Exiting(t)
    /\ Len(handlers) = 1
    /\ coll[t] # handlers[1]
    /\ Len(stored[t]) = 1
    /\ stored[t][1].coll = handlers[1]
    /\ store[coll[t]] = 0

====
